---------------------------- MODULE Spec2Model ----------------------------
(***************************************************************************)
(* A model of the openapi-type-generator script.  The repository holds     *)
(* four revisions of the script; the model carries a variable `rev` that   *)
(* says which revision is running:                                         *)
(*   "lookup"  src/unnamed/part_000          (transform, enumLookup)       *)
(*   "hash"    src/generate-api-types.js:1-243   (adds the change detector)*)
(*   "names"   src/unnamed/part_003:66-249   (enumNames, cleanSchemaName)  *)
(*   "single"  src/generate-api-types.js:245-462 (one source only)         *)
(* Names (schema keys, titles, identifiers) are sequences of characters,   *)
(* so that the regular expressions of the script are computed character   *)
(* by character.                                                           *)
(***************************************************************************)
EXTENDS Integers, Sequences, FiniteSets, TLC

\* ------------------------------------------------------------------------
\* Bounds of the model.
\* ------------------------------------------------------------------------
\* Longest command line, in option tokens.
MaxTokens == 2
\* Longest schema name, in characters, in the flattener and transform runs.
MaxNameLen == 3
\* Most property entries of components.schemas handed to the flattener.
MaxProps == 3

\* ------------------------------------------------------------------------
\* Characters and names.
\* ------------------------------------------------------------------------
Alphabet == {"a", "B", "1", "_", "-", "."}

\* [a-zA-Z]
IsLetter(c) == c \in {"a", "B"}

\* [\w\d]: letters, digits and the underscore.
IsWordChar(c) == c \in {"a", "B", "1", "_"}

RECURSIVE NamesUpTo(_)
NamesUpTo(n) ==
  IF n = 0 THEN {<<>>}
  ELSE LET shorter == NamesUpTo(n - 1)
       IN  shorter \cup {Append(s, c) : s \in shorter, c \in Alphabet}

\* Non-empty names of at most MaxNameLen characters.
Names == NamesUpTo(MaxNameLen) \ {<<>>}

\* What the TypeScript parser accepts as an identifier.
IsIdentifier(s) ==
  /\ Len(s) > 0
  /\ IsLetter(s[1]) \/ s[1] = "_"
  /\ \A i \in 1..Len(s) : IsWordChar(s[i])

\* Length of the longest prefix of s made of characters that are not letters.
RECURSIVE LeadingNonLetters(_)
LeadingNonLetters(s) ==
  IF s = <<>> \/ IsLetter(Head(s)) THEN 0
  ELSE 1 + LeadingNonLetters(Tail(s))

\* schemaName.replace(/([^\w\d])|(^[^a-zA-Z]+)/g, ''), scanning from
\* position i.  At each position the first alternative is tried first; the
\* second one is anchored and can match at position 1 only.
RECURSIVE replaceClean(_, _)
replaceClean(s, i) ==
  IF i > Len(s) THEN <<>>
  ELSE IF ~IsWordChar(s[i]) THEN replaceClean(s, i + 1)
  ELSE IF i = 1 /\ ~IsLetter(s[1]) THEN replaceClean(s, 1 + LeadingNonLetters(s))
  ELSE <<s[i]>> \o replaceClean(s, i + 1)

cleanSchemaName(schemaName) == replaceClean(schemaName, 1)

\* enumName.replace(/[^\w\d]/, ''): without the g flag only the first match
\* is removed.
RECURSIVE replaceFirst(_)
replaceFirst(s) ==
  IF s = <<>> THEN <<>>
  ELSE IF ~IsWordChar(Head(s)) THEN Tail(s)
  ELSE <<Head(s)>> \o replaceFirst(Tail(s))


\* ------------------------------------------------------------------------
\* Documents.  A document is the ordered components.schemas mapping of the
\* parsed OpenAPI file: a sequence of schemas, each with its key (name), the
\* keywords the script reads (enum, type, title) and at most one property.
\* `values` stands for the rest of an enumeration, its values and its
\* description: "x" or "y", and "" for a node that is not one.
\* ------------------------------------------------------------------------
NoTitle == <<>>
NoProp ==
  [key |-> <<>>, enum |-> FALSE, type |-> "object", title |-> NoTitle, values |-> ""]

NodeOf(hasEnum, type, title, values) ==
  [enum |-> hasEnum, type |-> type, title |-> title, values |-> values]

Node(hasEnum, type, title) == NodeOf(hasEnum, type, title, IF hasEnum THEN "x" ELSE "")

Schema(name, node, prop) == [name |-> name, node |-> node, prop |-> prop]

\* A plain object schema.
ObjectSchema(name) == Schema(name, Node(FALSE, "object", NoTitle), NoProp)

\* A schema that is itself an enumeration, titled as it is keyed.
EnumSchema(name, type) == Schema(name, Node(TRUE, type, name), NoProp)

\* An object schema with one inline enumeration as a property.
WithInlineEnumOf(name, key, title, values) ==
  Schema(name, Node(FALSE, "object", NoTitle),
         [key |-> key, enum |-> TRUE, type |-> "string", title |-> title,
          values |-> values])

WithInlineEnum(name, key, title) == WithInlineEnumOf(name, key, title, "x")

\* The documents the sources of the pipeline runs can hold.
DocPool ==
  { <<>>,
    <<ObjectSchema(<<"a">>)>>,
    <<ObjectSchema(<<"a">>), EnumSchema(<<"B">>, "string")>>,
    <<EnumSchema(<<"B">>, "integer")>>,
    <<EnumSchema(<<"a", "-", "B">>, "string")>>,
    <<ObjectSchema(<<"a", "-", "B">>)>>,
    <<WithInlineEnum(<<"a">>, <<"B">>, <<"B">>)>> }

\* openAPISchema before a source has returned, and after.
NoDoc == [loaded |-> FALSE, schemas |-> <<>>]
Loaded(doc) == [loaded |-> TRUE, schemas |-> doc]

\* ------------------------------------------------------------------------
\* State.
\* ------------------------------------------------------------------------
VARIABLES
  rev,            \* the revision of the script that runs
  pkgVersion,     \* pkg.version
  argv,           \* the option names written on the command line, in order
  importOrder,    \* getArgs: the try-order of the sources
  pc,             \* where the run is
  idx,            \* loadOpenAPISchema: position of importKey in importOrder
  timer,          \* the setTimeout of the URL source: "none", "armed", "cleared"
  response,       \* status of the HTTP response, 0 before there is one
  attempts,       \* history: the sources tried in this run and how each ended
  openAPISchema,  \* the resolved document, NoDoc before
  schemaHash,     \* hash of document and version (revision "hash")
  visits,         \* schema nodes the translation engine has still to visit
  members,        \* the members of components.schemas translated so far
  enumLookup,     \* the enum accumulator, in insertion order
  typeFile,       \* the text of the primary artifact, as its statements
  reExporterFile, \* the flattened module
  files,          \* the output directory: openapi.ts and schemas.ts
  written,        \* history: the files this run has written, in order
  staged,         \* history: whether this run ran git add
  outcome,        \* how the run ended, "running" before
  prev            \* history: what the previous run resolved and did

vars == <<rev, pkgVersion, argv, importOrder, pc, idx, timer, response,
          attempts, openAPISchema, schemaHash, visits, members, enumLookup,
          typeFile, reExporterFile, files, written, staged, outcome, prev>>

Revisions == {"lookup", "hash", "names", "single"}

\* The revisions that try several sources in order.
Fallback(r) == r # "single"
\* The revisions that translate with the transform callback.
UsesTransform(r) == r \in {"lookup", "hash"}

PkgVersions == {"1.0.0", "1.0.1"}

\* ------------------------------------------------------------------------
\* getArgs.
\* ------------------------------------------------------------------------
OasNames == {"oas-path", "oas-command", "oas-url"}
OptionNames == OasNames \cup {"command-cwd"}

CommandLines == UNION {[1..n -> OptionNames] : n \in 0..MaxTokens}

\* parseArgs with tokens: true.  Every option is written with its value, so
\* the i-th option sits at position 2(i-1) of the arguments.
parseArgsTokens(cmd) ==
  [i \in 1..Len(cmd) |-> [kind |-> "option", name |-> cmd[i], index |-> 2 * (i - 1)]]

\* parseArgs values: an option is set (a non-empty string) when it is written.
parseArgsValues(cmd) == {cmd[i] : i \in 1..Len(cmd)}

isOptionToken(token) == token.kind = "option"

\* token.name.startsWith('oas')
startsWithOas(token) == token.name \in OasNames

\* tokens.sort((a, b) => a.index - b.index), by insertion.
RECURSIVE insertByIndex(_, _)
insertByIndex(token, sorted) ==
  IF sorted = <<>> THEN <<token>>
  ELSE IF token.index < Head(sorted).index THEN <<token>> \o sorted
  ELSE <<Head(sorted)>> \o insertByIndex(token, Tail(sorted))

RECURSIVE sortByIndex(_)
sortByIndex(tokens) ==
  IF tokens = <<>> THEN <<>>
  ELSE insertByIndex(tokens[Len(tokens)], sortByIndex(SubSeq(tokens, 1, Len(tokens) - 1)))

\* A try-order by the type of the source instead of its place on the
\* command line.
ImportOrderByType(tokens) ==
  LET present == {tokens[i].name : i \in 1..Len(tokens)}
      pick(name) == IF name \in present THEN <<name>> ELSE <<>>
  IN  pick("oas-path") \o pick("oas-command") \o pick("oas-url")

ImportOrder(tokens) ==
  LET kept == SelectSeq(SelectSeq(tokens, isOptionToken), startsWithOas)
      sorted == sortByIndex(kept)
  IN  [i \in 1..Len(sorted) |-> sorted[i].name]

\* The process ends: nothing of the run is left to do.
Exit(how) ==
  /\ pc' = "exit"
  /\ outcome' = how

GetArgs ==
  /\ pc = "getArgs"
  /\ LET args == parseArgsValues(argv)
         commands == args \cap OasNames
     IN  IF rev = "single" /\ Cardinality(commands) > 1
           THEN Exit("usage") /\ UNCHANGED importOrder
         ELSE IF commands = {}
           THEN Exit("usage") /\ UNCHANGED importOrder
         ELSE IF "command-cwd" \in args /\ "oas-command" \notin args
           THEN Exit("usage") /\ UNCHANGED importOrder
         ELSE /\ pc' = "load"
              /\ outcome' = outcome
              /\ importOrder' = IF Fallback(rev)
                                  THEN ImportOrder(parseArgsTokens(argv))
                                  ELSE <<>>
  /\ idx' = 1
  /\ UNCHANGED <<rev, pkgVersion, argv, timer, response, attempts,
                 openAPISchema, schemaHash, visits, members, enumLookup,
                 typeFile, reExporterFile, files, written, staged, prev>>

\* ------------------------------------------------------------------------
\* loadOpenAPISchema.
\* ------------------------------------------------------------------------
StatusCodes == {200, 404}

\* response.ok
IsOk(status) == status \in 200..299

\* What a source can give: a failure of one of the kinds `failures`, or a
\* document.
SourceResults(failures) ==
  {[fails |-> f, doc |-> <<>>] : f \in failures}
    \cup {[fails |-> "no", doc |-> d] : d \in DocPool}

\* The source the resolver is at: importKey of the loop, or, in the
\* single-source revision, the one source that is set.
CurrentKey ==
  IF Fallback(rev) THEN importOrder[idx]
  ELSE LET args == parseArgsValues(argv)
       IN  IF "oas-path" \in args THEN "oas-path"
           ELSE IF "oas-command" \in args THEN "oas-command"
           ELSE "oas-url"

\* The entry of the history for a source that failed.
Failed(key) == [key |-> key, ok |-> FALSE, doc |-> <<>>]

\* return JSON.parse(openAPIFile) / return await response.json()
Returned(key, doc) ==
  /\ attempts' = Append(attempts, [key |-> key, ok |-> TRUE, doc |-> doc])
  /\ openAPISchema' = Loaded(doc)
  /\ pc' = "loaded"
  /\ UNCHANGED <<idx, outcome>>

\* A catch that gives up at the first source that fails.
CaughtGivesUp(key) ==
  /\ attempts' = Append(attempts, Failed(key))
  /\ Exit("sourceExhausted")
  /\ UNCHANGED <<idx, openAPISchema>>

\* catch (e) { ...; continue; } and, after the last importKey, the exit that
\* follows the loop.
Caught(key) ==
  /\ attempts' = Append(attempts, Failed(key))
  /\ IF idx < Len(importOrder)
       THEN idx' = idx + 1 /\ pc' = "load" /\ UNCHANGED outcome
       ELSE Exit("sourceExhausted") /\ UNCHANGED idx
  /\ UNCHANGED openAPISchema

\* Single-source revision: catch (e) { console.error(...); throw e; }, which
\* nothing catches.
Rethrown(key) ==
  /\ attempts' = Append(attempts, Failed(key))
  /\ Exit("sourceThrown")
  /\ UNCHANGED <<idx, openAPISchema>>

\* Single-source revision: console.error(...); process.exit(0).
Rejected(key) ==
  /\ attempts' = Append(attempts, Failed(key))
  /\ Exit("sourceError")
  /\ UNCHANGED <<idx, openAPISchema>>

\* case 'oas-path': readFileSync throws, JSON.parse throws, or a document.
ReadPath ==
  /\ pc = "load"
  /\ CurrentKey = "oas-path"
  /\ \E result \in SourceResults({"ENOENT", "SyntaxError"}) :
       IF result.fails = "no" THEN Returned("oas-path", result.doc)
       ELSE IF Fallback(rev) THEN Caught("oas-path")
       ELSE Rethrown("oas-path")
  /\ UNCHANGED <<rev, pkgVersion, argv, importOrder, timer, response,
                 schemaHash, visits, members, enumLookup, typeFile,
                 reExporterFile, files, written, staged, prev>>

\* case 'oas-command': execSync throws, the output is empty or is not JSON,
\* or it is a document.
RunCommand ==
  /\ pc = "load"
  /\ CurrentKey = "oas-command"
  /\ \E result \in SourceResults({"failed", "empty", "SyntaxError"}) :
       IF result.fails = "no" THEN Returned("oas-command", result.doc)
       ELSE IF Fallback(rev) THEN Caught("oas-command")
       ELSE IF result.fails = "failed" THEN Rethrown("oas-command")
       ELSE Rejected("oas-command")
  /\ UNCHANGED <<rev, pkgVersion, argv, importOrder, timer, response,
                 schemaHash, visits, members, enumLookup, typeFile,
                 reExporterFile, files, written, staged, prev>>

\* case 'oas-url': the timer is set and the request is sent.
StartFetch ==
  /\ pc = "load"
  /\ CurrentKey = "oas-url"
  /\ pc' = "fetch"
  /\ timer' = "armed"
  /\ response' = 0
  /\ UNCHANGED <<rev, pkgVersion, argv, importOrder, idx, attempts,
                 openAPISchema, schemaHash, visits, members, enumLookup,
                 typeFile, reExporterFile, files, written, staged, outcome,
                 prev>>

\* await fetch(...) resolves with the response's status line and headers;
\* clearTimeout(timeout) follows.
FetchResolves ==
  /\ pc = "fetch"
  /\ \E status \in StatusCodes :
       /\ response' = status
       /\ IF ~Fallback(rev) /\ ~IsOk(status)
            THEN Rejected("oas-url")
            ELSE pc' = "body" /\ UNCHANGED <<idx, attempts, openAPISchema, outcome>>
  /\ timer' = "cleared"
  /\ UNCHANGED <<rev, pkgVersion, argv, importOrder, schemaHash, visits,
                 members, enumLookup, typeFile, reExporterFile, files,
                 written, staged, prev>>

\* await fetch(...) rejects: the connection fails.
FetchRejects ==
  /\ pc = "fetch"
  /\ IF Fallback(rev) THEN Caught("oas-url") ELSE Rethrown("oas-url")
  /\ UNCHANGED <<rev, pkgVersion, argv, importOrder, timer, response,
                 schemaHash, visits, members, enumLookup, typeFile,
                 reExporterFile, files, written, staged, prev>>

\* The timer fires while the request is pending: controller.abort() makes
\* fetch reject.
TimerFires ==
  /\ pc = "fetch"
  /\ timer = "armed"
  /\ timer' = "fired"
  /\ IF Fallback(rev) THEN Caught("oas-url") ELSE Rethrown("oas-url")
  /\ UNCHANGED <<rev, pkgVersion, argv, importOrder, response, schemaHash,
                 visits, members, enumLookup, typeFile, reExporterFile,
                 files, written, staged, prev>>

\* await response.json(): the body is a document or is not JSON.
ReadBody ==
  /\ pc = "body"
  /\ \E result \in SourceResults({"SyntaxError"}) :
       IF result.fails = "no" THEN Returned("oas-url", result.doc)
       ELSE IF Fallback(rev) THEN Caught("oas-url")
       ELSE Rejected("oas-url")
  /\ UNCHANGED <<rev, pkgVersion, argv, importOrder, timer, response,
                 schemaHash, visits, members, enumLookup, typeFile,
                 reExporterFile, files, written, staged, prev>>

\* ------------------------------------------------------------------------
\* Files and their text.  A text is the sequence of its top-level
\* statements; the parser gives the statements back, or throws when one of
\* them is not TypeScript.
\* ------------------------------------------------------------------------
\* The empty string: what transform returns for "no hoist", and the type
\* reference of a schema the engine translates inline.
Inline == <<>>

NoHash == [canon |-> <<>>, version |-> ""]

Statement(kind, name, id, mem, value) ==
  [stmt |-> kind, name |-> name, id |-> id, members |-> mem, value |-> value]

\* export interface components { schemas: { <members> } }
ComponentsInterface(mem) == Statement("interface", "components", <<>>, mem, NoHash)
\* export type components = Record<string, never>;
ComponentsAlias == Statement("alias", "components", <<>>, <<>>, NoHash)
\* export const schemaHash = '<hash>';
HashConst(h) == Statement("const", "schemaHash", <<>>, <<>>, h)
\* export enum <id> { ... }
EnumDeclaration(id) == Statement("enum", "", id, <<>>, NoHash)
\* Text that is not TypeScript.
Junk == Statement("junk", "", <<>>, <<>>, NoHash)

Missing == [exists |-> FALSE, text |-> <<>>]
FileOf(text) == [exists |-> TRUE, text |-> text]

\* What the parser accepts as the name of a type: identifiers joined by
\* dots.
IsQualifiedName(s) ==
  /\ Len(s) > 0
  /\ IsLetter(s[1]) \/ s[1] = "_"
  /\ \A i \in 1..Len(s) : IsWordChar(s[i]) \/ s[i] = "."
  /\ \A i \in 1..Len(s) :
       s[i] = "." => i < Len(s) /\ (IsLetter(s[i + 1]) \/ s[i + 1] = "_")

\* A type reference parses when it is inline or the name of a type.
RefParses(ref) == ref = Inline \/ IsQualifiedName(ref)

StatementParses(s) ==
  CASE s.stmt = "junk" -> FALSE
    [] s.stmt = "enum" -> IsIdentifier(s.id)
    [] s.stmt = "interface" ->
         \A i \in 1..Len(s.members) :
           RefParses(s.members[i].ref) /\ RefParses(s.members[i].inner)
    [] OTHER -> TRUE

\* parser.parse(text) does not throw.
Parses(text) == \A i \in 1..Len(text) : StatementParses(text[i])

\* What the output directory can hold at openapi.ts before the first run:
\* nothing, a file that is not TypeScript, or an artifact without a hash.
InitialArtifacts == {Missing, FileOf(<<Junk>>), FileOf(<<ComponentsInterface(<<>>)>>)}

\* ------------------------------------------------------------------------
\* The change detector (revision "hash").
\* ------------------------------------------------------------------------
CharRank(c) ==
  CASE c = "-" -> 1 [] c = "." -> 2 [] c = "1" -> 3
    [] c = "B" -> 4 [] c = "_" -> 5 [] OTHER -> 6

\* a < b as strings.
RECURSIVE NameLess(_, _)
NameLess(a, b) ==
  IF b = <<>> THEN FALSE
  ELSE IF a = <<>> THEN TRUE
  ELSE IF Head(a) # Head(b) THEN CharRank(Head(a)) < CharRank(Head(b))
  ELSE NameLess(Tail(a), Tail(b))

RECURSIVE insertByKey(_, _)
insertByKey(schema, sorted) ==
  IF sorted = <<>> THEN <<schema>>
  ELSE IF NameLess(schema.name, Head(sorted).name) THEN <<schema>> \o sorted
  ELSE <<Head(sorted)>> \o insertByKey(schema, Tail(sorted))

\* Object.keys(object).sort() of object-hash.
RECURSIVE sortKeys(_)
sortKeys(doc) ==
  IF doc = <<>> THEN <<>>
  ELSE insertByKey(doc[Len(doc)], sortKeys(SubSeq(doc, 1, Len(doc) - 1)))

\* A hash over the document as it is written, keys in the order of the file.
hashInKeyOrder(doc, version) == [canon |-> doc, version |-> version]

\* hash({...openAPISchema, typeGeneratorVersion: pkg.version})
hash(doc, version) == [canon |-> sortKeys(doc), version |-> version]

isSchemaHashNode(node) == node.stmt = "const" /\ node.name = "schemaHash"

\* A getSchemaHash that never finds the constant.
getSchemaHashNever(file) ==
  [threw |-> ~file.exists \/ ~Parses(file.text), found |-> FALSE, value |-> NoHash]

\* getSchemaHash: readFileSync or parser.parse throws, or null, or the value
\* of the first schemaHash constant.
getSchemaHash(file) ==
  IF ~file.exists \/ ~Parses(file.text)
    THEN [threw |-> TRUE, found |-> FALSE, value |-> NoHash]
  ELSE LET schemaHashNodes == SelectSeq(file.text, isSchemaHashNode)
       IN  IF Len(schemaHashNodes) = 0
             THEN [threw |-> FALSE, found |-> FALSE, value |-> NoHash]
           ELSE [threw |-> FALSE, found |-> TRUE, value |-> schemaHashNodes[1].value]

\* Lines 212-218: the hash, the previous hash, and the short-circuit.
DetectChange ==
  /\ pc = "loaded"
  /\ rev = "hash"
  /\ schemaHash' = hash(openAPISchema.schemas, pkgVersion)
  /\ LET prevSchemaHash == getSchemaHash(files.openapi)
     IN  IF prevSchemaHash.threw THEN Exit("detectorThrown")
         ELSE IF prevSchemaHash.found /\ prevSchemaHash.value = schemaHash'
           THEN Exit("unchanged")
         ELSE pc' = "translate" /\ UNCHANGED outcome
  /\ UNCHANGED <<rev, pkgVersion, argv, importOrder, idx, timer, response,
                 attempts, openAPISchema, visits, members, enumLookup,
                 typeFile, reExporterFile, files, written, staged, prev>>

\* ------------------------------------------------------------------------
\* Translation: openapiTS and the transform callback.
\* ------------------------------------------------------------------------
Last(s) == s[Len(s)]

\* '#/components/schemas/<name>', as its segments.
SchemaPath(name) == <<"#", "components", "schemas", name>>

\* The enum accumulator: a sequence of [name, schema], in insertion order.
HasKey(lookup, name) == \E i \in 1..Len(lookup) : lookup[i].name = name
Keys(lookup) == [i \in 1..Len(lookup) |-> lookup[i].name]

\* An accumulator in which the last node recorded under a name stays.
RecordOverwrites(lookup, enumName, schemaObject) ==
  IF HasKey(lookup, enumName)
    THEN [i \in 1..Len(lookup) |->
            IF lookup[i].name = enumName
              THEN [name |-> enumName, schema |-> schemaObject]
              ELSE lookup[i]]
  ELSE Append(lookup, [name |-> enumName, schema |-> schemaObject])

\* enumLookup[enumName] = schemaObject, when the key is not yet there.
Record(lookup, enumName, schemaObject) ==
  IF HasKey(lookup, enumName) THEN lookup
  ELSE Append(lookup, [name |-> enumName, schema |-> schemaObject])

\* transform of revision "hash": the token it returns ('' is Inline) and the
\* accumulator after the call.  metadata.path.split('/').at(-1) is the last
\* segment of the path.
transform(schemaObject, path, lookup) ==
  IF ~schemaObject.enum THEN [token |-> Inline, lookup |-> lookup]
  ELSE IF schemaObject.type # "string" THEN [token |-> Inline, lookup |-> lookup]
  ELSE IF schemaObject.title = NoTitle THEN [token |-> Inline, lookup |-> lookup]
  ELSE IF Last(path) # schemaObject.title THEN [token |-> Inline, lookup |-> lookup]
  ELSE [token |-> schemaObject.title,
        lookup |-> Record(lookup, schemaObject.title, schemaObject)]

\* transform of revision "lookup": the same without the test of the type.
transformLookup(schemaObject, path, lookup) ==
  IF ~schemaObject.enum THEN [token |-> Inline, lookup |-> lookup]
  ELSE IF schemaObject.title = NoTitle THEN [token |-> Inline, lookup |-> lookup]
  ELSE IF Last(path) # schemaObject.title THEN [token |-> Inline, lookup |-> lookup]
  ELSE [token |-> schemaObject.title,
        lookup |-> Record(lookup, schemaObject.title, schemaObject)]

\* The callback the running revision hands to the engine.
TransformOf(r, schemaObject, path, lookup) ==
  IF r = "hash" THEN transform(schemaObject, path, lookup)
  ELSE transformLookup(schemaObject, path, lookup)

\* One visit of the engine: a node, where it sits, and, for a schema of
\* components.schemas, its key and its property.
Visit(schema) ==
  [node |-> schema.node, path |-> SchemaPath(schema.name), top |-> TRUE,
   key |-> schema.name, prop |-> schema.prop]

PropVisit(parent, prop) ==
  [node |-> NodeOf(prop.enum, prop.type, prop.title, prop.values),
   path |-> Append(SchemaPath(parent), prop.key), top |-> FALSE,
   key |-> prop.key, prop |-> NoProp]

\* A member of components.schemas in the generated text: its key, whether
\* the key is written quoted, the type reference (Inline or a token), and the
\* token of its property, if one was hoisted.
Member(key, ref) ==
  [key |-> key, quoted |-> ~IsIdentifier(key), ref |-> ref, inner |-> Inline]

\* The run is at the call of openapiTS.
AtTranslate == pc = "translate" \/ (pc = "loaded" /\ rev # "hash")

\* openapiTS(openAPISchema, { transform }) starts, or rejects the document.
StartTranslate ==
  /\ AtTranslate
  /\ UsesTransform(rev)
  /\ \E rejects \in BOOLEAN :
       IF rejects THEN Exit("translateError") /\ UNCHANGED visits
       ELSE /\ pc' = "translating"
            /\ visits' = [i \in 1..Len(openAPISchema.schemas) |->
                            Visit(openAPISchema.schemas[i])]
            /\ UNCHANGED outcome
  /\ UNCHANGED <<rev, pkgVersion, argv, importOrder, idx, timer, response,
                 attempts, openAPISchema, schemaHash, members, enumLookup,
                 typeFile, reExporterFile, files, written, staged, prev>>

\* The engine calls transform on the next node.  A schema that is not
\* hoisted is translated inline, and its property visited next.
TransformStep(r, todo, mem, lookup) ==
  LET v == Head(todo)
      result == TransformOf(r, v.node, v.path, lookup)
      inside == IF v.top /\ result.token = Inline /\ v.prop # NoProp
                  THEN <<PropVisit(v.key, v.prop)>>
                  ELSE <<>>
  IN  [visits |-> inside \o Tail(todo),
       members |-> IF v.top THEN Append(mem, Member(v.key, result.token))
                   ELSE [mem EXCEPT ![Len(mem)].inner = result.token],
       lookup |-> result.lookup]

TransformCall ==
  /\ pc = "translating"
  /\ visits # <<>>
  /\ LET after == TransformStep(rev, visits, members, enumLookup)
     IN  /\ enumLookup' = after.lookup
         /\ visits' = after.visits
         /\ members' = after.members
  /\ UNCHANGED <<rev, pkgVersion, argv, importOrder, pc, idx, timer, response,
                 attempts, openAPISchema, schemaHash, typeFile,
                 reExporterFile, files, written, staged, outcome, prev>>

\* The name the engine of the later revisions gives the enum declaration of
\* a schema.
EngineEnumName(key) == SelectSeq(key, IsWordChar)

\* The enum declarations of the tree, in the order of the schemas; new
\* Set(...) keeps the first of equal names.
RECURSIVE EngineEnums(_, _)
EngineEnums(doc, found) ==
  IF doc = <<>> THEN found
  ELSE LET s == Head(doc)
           own == IF s.node.enum
                    THEN Record(found, EngineEnumName(s.name), s.node)
                    ELSE found
           inner == IF s.prop # NoProp /\ s.prop.enum
                      THEN Record(own, EngineEnumName(s.name \o s.prop.key),
                                  NodeOf(TRUE, s.prop.type, s.prop.title, s.prop.values))
                      ELSE own
       IN  EngineEnums(Tail(doc), inner)

EngineMember(s) ==
  Member(s.name, IF s.node.enum THEN EngineEnumName(s.name) ELSE Inline)

\* openapiTS(openAPISchema, { enum: true, ... }) of the later revisions, and
\* enumNames: the names of the enum declarations of the tree it returns.
TranslateEnums ==
  /\ AtTranslate
  /\ ~UsesTransform(rev)
  /\ \E rejects \in BOOLEAN :
       IF rejects THEN Exit("translateError") /\ UNCHANGED <<members, enumLookup>>
       ELSE /\ pc' = "translating"
            /\ members' = [i \in 1..Len(openAPISchema.schemas) |->
                             EngineMember(openAPISchema.schemas[i])]
            /\ enumLookup' = EngineEnums(openAPISchema.schemas, <<>>)
            /\ UNCHANGED outcome
  /\ UNCHANGED <<rev, pkgVersion, argv, importOrder, idx, timer, response,
                 attempts, openAPISchema, schemaHash, visits, typeFile,
                 reExporterFile, files, written, staged, prev>>

\* ------------------------------------------------------------------------
\* Emission and flattening.
\* ------------------------------------------------------------------------
\* The identifier formatEnum renders for an enum schema.
formatEnum(enumSchema) == EnumDeclaration(replaceFirst(enumSchema.title))

\* The text of the primary artifact.  `shape` is how the engine writes
\* components when the document names no schema.
TypeFileText(r, shape, mem, lookup, h) ==
  LET components == IF mem = <<>> /\ shape = "alias" THEN ComponentsAlias
                    ELSE ComponentsInterface(mem)
      hashConst == IF r = "hash" THEN <<HashConst(h)>> ELSE <<>>
      enumDefs == IF UsesTransform(r)
                    THEN [i \in 1..Len(lookup) |-> formatEnum(lookup[i].schema)]
                    ELSE [i \in 1..Len(lookup) |-> EnumDeclaration(lookup[i].name)]
  IN  <<components>> \o hashConst \o enumDefs

\* `${undefined}`: what the template writes for the name of a quoted key in
\* the revisions that read key.name only.
Undefined == <<"undefined">>

\* The flattened module: the names of the consolidated re-export clause and
\* the individual declarations, each `export <kind> <local> =
\* components['schemas']['<index>'];`.
ReExporter(enumClause, lines) == [enumClause |-> enumClause, lines |-> lines]
NoReExporter == ReExporter(<<>>, <<>>)

Declaration(kind, local, index) == [kind |-> kind, local |-> local, index |-> index]

\* schemaProperty.key.name: undefined for a quoted key.
KeyName(member) == IF member.quoted THEN Undefined ELSE member.key

\* Lines 201-205 of revision "hash" (171-175 of "lookup"): filter on
\* key.name, then name and index both from key.name.
ReExportLinesLookup(schemaProperties, lookup) ==
  LET keep(m) == ~HasKey(lookup, KeyName(m))
      kept == SelectSeq(schemaProperties, keep)
      isEnum(m) == ~m.quoted /\ HasKey(lookup, KeyName(m))
  IN  [i \in 1..Len(kept) |->
         Declaration(IF isEnum(kept[i]) THEN "const" ELSE "type",
                     KeyName(kept[i]), KeyName(kept[i]))]

\* The declarations of the later revisions in the opposite order.
ReExportLinesReversed(schemaProperties, enumNames) ==
  LET keep(m) == ~HasKey(enumNames, KeyName(m))
      kept == SelectSeq(schemaProperties, keep)
  IN  [i \in 1..Len(kept) |->
         Declaration("type", cleanSchemaName(kept[Len(kept) + 1 - i].key),
                     kept[Len(kept) + 1 - i].key)]

\* Lines 216-221 of revision "names" (428-433 of "single"): filter on
\* key.name, then the name from key.name || key.value, cleaned for the local
\* binding.
ReExportLinesNames(schemaProperties, enumNames) ==
  LET keep(m) == ~HasKey(enumNames, KeyName(m))
      kept == SelectSeq(schemaProperties, keep)
      isEnum(m) == ~m.quoted /\ HasKey(enumNames, m.key)
  IN  [i \in 1..Len(kept) |->
         Declaration(IF isEnum(kept[i]) THEN "const" ELSE "type",
                     cleanSchemaName(kept[i].key), kept[i].key)]

\* generateReExporterFile: parser.parse, the components node, its schemas
\* member, then the lines.  It throws when the text does not parse or
\* components is not an interface.
generateReExporterFile(r, text, lookup) ==
  IF ~Parses(text) \/ text[1].stmt # "interface"
    THEN [threw |-> TRUE, file |-> NoReExporter]
  ELSE LET schemaProperties == text[1].members
       IN  [threw |-> FALSE,
            file |-> ReExporter(Keys(lookup),
                                IF UsesTransform(r)
                                  THEN ReExportLinesLookup(schemaProperties, lookup)
                                  ELSE ReExportLinesNames(schemaProperties, lookup))]

\* The translation is over: the hash constant and the enum definitions are
\* appended and openapi.ts is written.
WritePrimary ==
  /\ pc = "translating"
  /\ visits = <<>>
  /\ \E shape \in {"alias", "interface"} :
       typeFile' = TypeFileText(rev, shape, members, enumLookup, schemaHash)
  /\ files' = [files EXCEPT !.openapi = FileOf(typeFile')]
  /\ written' = Append(written, "openapi.ts")
  /\ pc' = "flatten"
  /\ UNCHANGED <<rev, pkgVersion, argv, importOrder, idx, timer, response,
                 attempts, openAPISchema, schemaHash, visits, members,
                 enumLookup, reExporterFile, staged, outcome, prev>>

\* generateReExporterFile and the write of schemas.ts.
WriteReExporter ==
  /\ pc = "flatten"
  /\ LET result == generateReExporterFile(rev, typeFile, enumLookup)
     IN  IF result.threw
           THEN Exit("flattenThrown") /\ UNCHANGED <<reExporterFile, files, written>>
         ELSE /\ reExporterFile' = result.file
              /\ files' = [files EXCEPT !.schemas = FileOf(<<>>)]
              /\ written' = Append(written, "schemas.ts")
              /\ pc' = "add"
              /\ UNCHANGED outcome
  /\ UNCHANGED <<rev, pkgVersion, argv, importOrder, idx, timer, response,
                 attempts, openAPISchema, schemaHash, visits, members,
                 enumLookup, typeFile, staged, prev>>

\* git add: always in revision "lookup", where its failure is not caught;
\* under --auto-add and inside a try in the later revisions.
AutoAdd ==
  /\ pc = "add"
  /\ \E autoAdd \in BOOLEAN, inRepository \in BOOLEAN :
       IF rev = "lookup"
         THEN /\ staged' = inRepository
              /\ Exit(IF inRepository THEN "done" ELSE "stagingThrown")
         ELSE /\ staged' = (autoAdd /\ inRepository)
              /\ Exit("done")
  /\ UNCHANGED <<rev, pkgVersion, argv, importOrder, idx, timer, response,
                 attempts, openAPISchema, schemaHash, visits, members,
                 enumLookup, typeFile, reExporterFile, files, written, prev>>

\* ------------------------------------------------------------------------
\* Runs.
\* ------------------------------------------------------------------------
NoPrev == [completed |-> FALSE, doc |-> NoDoc, version |-> ""]

\* The run wrote both artifacts and ended without an error.
Completed == outcome = "done" /\ written = <<"openapi.ts", "schemas.ts">>

\* The script is started again with the same command line, on the output
\* directory as the last run left it; the package may have been upgraded.
NextRun ==
  /\ pc = "exit"
  /\ prev' = IF Completed
               THEN [completed |-> TRUE, doc |-> openAPISchema, version |-> pkgVersion]
               ELSE NoPrev
  /\ pkgVersion' \in PkgVersions
  /\ pc' = "getArgs"
  /\ importOrder' = <<>>
  /\ idx' = 0
  /\ timer' = "none"
  /\ response' = 0
  /\ attempts' = <<>>
  /\ openAPISchema' = NoDoc
  /\ schemaHash' = NoHash
  /\ visits' = <<>>
  /\ members' = <<>>
  /\ enumLookup' = <<>>
  /\ typeFile' = <<>>
  /\ reExporterFile' = NoReExporter
  /\ written' = <<>>
  /\ staged' = FALSE
  /\ outcome' = "running"
  /\ UNCHANGED <<rev, argv, files>>

Init ==
  /\ rev \in Revisions
  /\ pkgVersion \in PkgVersions
  /\ argv \in CommandLines
  /\ importOrder = <<>>
  /\ pc = "getArgs"
  /\ idx = 0
  /\ timer = "none"
  /\ response = 0
  /\ attempts = <<>>
  /\ openAPISchema = NoDoc
  /\ schemaHash = NoHash
  /\ visits = <<>>
  /\ members = <<>>
  /\ enumLookup = <<>>
  /\ typeFile = <<>>
  /\ reExporterFile = NoReExporter
  /\ files \in [openapi : InitialArtifacts, schemas : {Missing}]
  /\ written = <<>>
  /\ staged = FALSE
  /\ outcome = "running"
  /\ prev = NoPrev

Next ==
  \/ GetArgs
  \/ ReadPath
  \/ RunCommand
  \/ StartFetch
  \/ FetchResolves
  \/ FetchRejects
  \/ TimerFires
  \/ ReadBody
  \/ DetectChange
  \/ StartTranslate
  \/ TransformCall
  \/ TranslateEnums
  \/ WritePrimary
  \/ WriteReExporter
  \/ AutoAdd
  \/ NextRun

Spec == Init /\ [][Next]_vars

\* ------------------------------------------------------------------------
\* Properties of the pipeline.
\* ------------------------------------------------------------------------
\* The --oas-* flags in the order they are written on the command line.
IsOasName(name) == name \in OasNames
WrittenOasFlags == SelectSeq(argv, IsOasName)

\* C1: in the ordered-fallback revisions the sources are tried in the order
\* their flags are written, every source tried before the last one failed,
\* the document returned is the one the first successful source gave, and
\* once a document is returned no further source is tried in the run.
C1_TriedInWrittenOrder ==
  Fallback(rev) =>
    /\ Len(attempts) <= Len(WrittenOasFlags)
    /\ \A i \in 1..Len(attempts) : attempts[i].key = WrittenOasFlags[i]
    /\ \A i \in 1..(Len(attempts) - 1) : ~attempts[i].ok
    /\ openAPISchema.loaded <=> (attempts # <<>> /\ Last(attempts).ok)
    /\ openAPISchema.loaded => openAPISchema = Loaded(Last(attempts).doc)

\* C1 witness: the URL flag is written before the path flag, the URL source
\* failed and the path source, tried second, gave the document.
C1_Witness ==
  /\ Fallback(rev)
  /\ argv = <<"oas-url", "oas-path">>
  /\ Len(attempts) = 2
  /\ ~attempts[1].ok
  /\ attempts[2].ok
  /\ openAPISchema.loaded
  /\ pc = "exit"

\* The run ended inside loadOpenAPISchema.
AbortedAtResolver ==
  pc = "exit" /\ outcome \in {"sourceExhausted", "sourceThrown", "sourceError"}

\* The sources the resolver has to try: every written flag in the fallback
\* revisions, the one configured source in the single-source revision.
SourcesToTry == IF Fallback(rev) THEN Len(WrittenOasFlags) ELSE 1

\* C2: the run is aborted at the resolver exactly when every source of the
\* try-order has been tried and has failed; a failure of a source that is
\* not the last one leaves the run going.
C2_AbortIffAllFailed ==
  AbortedAtResolver <=>
    /\ attempts # <<>>
    /\ Len(attempts) = SourcesToTry
    /\ \A i \in 1..Len(attempts) : ~attempts[i].ok

\* C2 witness: --oas-path fails, --oas-command gives the document {}, and the
\* run goes on to write the primary artifact derived from it.
C2_Witness ==
  /\ Fallback(rev)
  /\ Len(attempts) = 2
  /\ attempts[1] = Failed("oas-path")
  /\ attempts[2] = [key |-> "oas-command", ok |-> TRUE, doc |-> <<>>]
  /\ openAPISchema = Loaded(<<>>)
  /\ written # <<>>

\* C3: a run that has ended has written both artifacts or none.
C3_BothOrNeither ==
  pc = "exit" => Len(written) \in {0, 2}

\* The source document and the generator version are those of the previous
\* run, which completed and wrote its artifacts.
Unchanged ==
  /\ prev.completed
  /\ openAPISchema = prev.doc
  /\ pkgVersion = prev.version

\* C4: in the revision with the change detector, a run that resolves the
\* document of the completed previous run under the same version reads back
\* the hash that run embedded, finds it equal to its own, and ends at the
\* detector with exit code 0, having written and staged nothing.
C4_SecondRunWritesNothing ==
  (rev = "hash" /\ Unchanged /\ pc # "loaded") =>
    /\ pc = "exit"
    /\ outcome = "unchanged"
    /\ written = <<>>
    /\ ~staged
    /\ typeFile = <<>>
    /\ getSchemaHash(files.openapi).found
    /\ getSchemaHash(files.openapi).value = schemaHash

\* C4 witness: such a second run has ended at the detector.
C4_Witness ==
  /\ rev = "hash"
  /\ Unchanged
  /\ outcome = "unchanged"
  /\ Len(openAPISchema.schemas) > 0

\* C5: the change detector does not end the run by an exception: with a
\* missing or malformed previous artifact the run goes on to emission.
C5_DetectorTolerates ==
  (rev = "hash" /\ pc = "exit") => outcome # "detectorThrown"

\* The run has gone on from the detector to emission.
ProceededToEmission ==
  \/ pc \in {"translate", "translating", "flatten", "add"}
  \/ pc = "exit" /\ outcome \in {"translateError", "flattenThrown", "done", "stagingThrown"}

\* C6: past the detector, either the previous hash exists and equals the
\* fresh one and the run has ended having written nothing, or the run has
\* proceeded to emission.
C6_SkipOrEmit ==
  (rev = "hash" /\ openAPISchema.loaded /\ pc # "loaded") =>
    \/ /\ pc = "exit"
       /\ outcome = "unchanged"
       /\ written = <<>>
       /\ ~staged
       /\ typeFile = <<>>
       /\ getSchemaHash(files.openapi).found
       /\ getSchemaHash(files.openapi).value = schemaHash
    \/ ProceededToEmission

\* C7: when the translation by the transform of revision "hash" is over, a
\* schema of components.schemas has been replaced by a hoisted enum exactly
\* when it is a string enum titled as the last segment of its reference, and
\* no inline enum (a property of a schema) has been hoisted.
C7_HoistIffReferenced ==
  (rev = "hash" /\ pc \in {"translating", "flatten", "add"}) =>
    \A i \in 1..Len(members) :
      LET schema == openAPISchema.schemas[i]
      IN  /\ members[i].ref # Inline <=>
               /\ schema.node.enum
               /\ schema.node.type = "string"
               /\ schema.node.title # NoTitle
               /\ schema.node.title = schema.name
          /\ members[i].inner = Inline

\* ------------------------------------------------------------------------
\* Runs of the flattener alone: the script is at the call of
\* generateReExporterFile, having translated a document read from
\* --oas-path, and takes that step.
\* ------------------------------------------------------------------------
\* Keys of the documents with several schemas.
KeyPool ==
  { <<"a">>, <<"B">>, <<"-", "a">>, <<".", "a">>, <<"a", "-", "B">>, <<"-", "1", "a">> }

SchemasOver(keys) ==
  {ObjectSchema(k) : k \in keys} \cup {EnumSchema(k, "string") : k \in keys}

DistinctKeys(doc) ==
  \A i, j \in 1..Len(doc) : i # j => doc[i].name # doc[j].name

\* One schema under any name; up to MaxProps schemas under the pool's keys.
FlattenDocs ==
  {<<s>> : s \in SchemasOver(Names)}
    \cup {doc \in UNION {[1..n -> SchemasOver(KeyPool)] : n \in 2..MaxProps} :
            DistinctKeys(doc)}

\* The whole traversal of the engine: TransformStep until no visit is left.
RECURSIVE traverse(_, _, _, _)
traverse(r, todo, mem, lookup) ==
  IF todo = <<>> THEN [members |-> mem, lookup |-> lookup]
  ELSE LET after == TransformStep(r, todo, mem, lookup)
       IN  traverse(r, after.visits, after.members, after.lookup)

\* What the translation of doc leaves in members and enumLookup.
Translated(r, doc) ==
  IF UsesTransform(r)
    THEN traverse(r, [i \in 1..Len(doc) |-> Visit(doc[i])], <<>>, <<>>)
    ELSE [members |-> [i \in 1..Len(doc) |-> EngineMember(doc[i])],
          lookup |-> EngineEnums(doc, <<>>)]

\* The state of a run of revision r that has read doc from --oas-path,
\* translated it and written openapi.ts.
AtFlatten(r, doc) ==
  LET t == Translated(r, doc)
      h == IF r = "hash" THEN hash(doc, "1.0.0") ELSE NoHash
      text == TypeFileText(r, "interface", t.members, t.lookup, h)
  IN  /\ rev = r
      /\ pkgVersion = "1.0.0"
      /\ argv = <<"oas-path">>
      /\ importOrder = IF Fallback(r) THEN <<"oas-path">> ELSE <<>>
      /\ pc = "flatten"
      /\ idx = 1
      /\ timer = "none"
      /\ response = 0
      /\ attempts = <<[key |-> "oas-path", ok |-> TRUE, doc |-> doc]>>
      /\ openAPISchema = Loaded(doc)
      /\ schemaHash = h
      /\ visits = <<>>
      /\ members = t.members
      /\ enumLookup = t.lookup
      /\ typeFile = text
      /\ reExporterFile = NoReExporter
      /\ files = [openapi |-> FileOf(text), schemas |-> Missing]
      /\ written = <<"openapi.ts">>
      /\ staged = FALSE
      /\ outcome = "running"
      /\ prev = NoPrev

InitFlatten == \E r \in Revisions, doc \in FlattenDocs : AtFlatten(r, doc)

NextFlatten == WriteReExporter

SpecFlatten == InitFlatten /\ [][NextFlatten]_vars

\* The states the flattener runs start in are states of the pipeline.
FlattenStatesArePipelineStates ==
  (pc = "flatten" /\ argv = <<"oas-path">> /\ Len(attempts) = 1) =>
    /\ members = Translated(rev, openAPISchema.schemas).members
    /\ enumLookup = Translated(rev, openAPISchema.schemas).lookup
    /\ typeFile \in {TypeFileText(rev, shape, members, enumLookup, schemaHash) :
                       shape \in {"alias", "interface"}}
    /\ files.openapi = FileOf(typeFile)
    /\ written = <<"openapi.ts">>

\* How often name is the index of an individual declaration, and how often
\* it stands in the consolidated clause.
Occurrences(seq, Test(_)) == Cardinality({i \in 1..Len(seq) : Test(seq[i])})

TimesDeclared(file, name) ==
  LET isName(line) == line.index = name
  IN  Occurrences(file.lines, isName)

TimesInClause(file, name) ==
  LET isName(n) == n = name
  IN  Occurrences(file.enumClause, isName)

\* C8: once the flattened module is produced, every key of
\* components.schemas in the generated artifact, quoted keys included, stands
\* in it exactly once: in one individual declaration or in the consolidated
\* clause.
C8_EveryKeyExactlyOnce ==
  pc = "add" =>
    \A i \in 1..Len(typeFile[1].members) :
      LET key == typeFile[1].members[i].key
      IN  TimesDeclared(reExporterFile, key) + TimesInClause(reExporterFile, key) = 1

\* The revisions that clean the schema name into a local identifier.
CleansNames(r) == r \in {"names", "single"}

\* C9: the flattened module of the revisions that clean names never binds one
\* local identifier in two declarations (a run with colliding names is
\* rejected, or the names are told apart).
C9_NoTwoBindings ==
  (CleansNames(rev) /\ pc = "add") =>
    \A i, j \in 1..Len(reExporterFile.lines) :
      i # j => reExporterFile.lines[i].local # reExporterFile.lines[j].local

\* The name with every character outside [A-Za-z0-9_] removed and then any
\* leading run of non-letters removed.
StrippedName(name) ==
  LET legal == SelectSeq(name, IsWordChar)
  IN  SubSeq(legal, 1 + LeadingNonLetters(legal), Len(legal))

HasLetter(name) == \E i \in 1..Len(name) : IsLetter(name[i])

\* C10: for every declared schema name with a letter in it, the local
\* identifier is the stripped name: only [A-Za-z0-9_], beginning with a
\* letter.
C10_LocalIsStrippedName ==
  (CleansNames(rev) /\ pc = "add") =>
    \A i \in 1..Len(reExporterFile.lines) :
      LET line == reExporterFile.lines[i]
      IN  HasLetter(line.index) =>
            /\ line.local = StrippedName(line.index)
            /\ IsLetter(line.local[1])
            /\ \A k \in 1..Len(line.local) : IsWordChar(line.local[k])

\* The keys of components.schemas in the generated artifact that are not in
\* the enum-name set.
NotEnumNamed(member) == ~HasKey(enumLookup, member.key)

\* file declares name as a type alias of components['schemas']['<name>'].
DeclaredAsType(file, name) ==
  \E k \in 1..Len(file.lines) :
    file.lines[k].kind = "type" /\ file.lines[k].index = name

\* C11: once the flattened module is produced, every key of
\* components.schemas that is not in the enum-name set has an individual
\* declaration that is a type alias and whose deep index is the key itself,
\* uncleaned, also when the key is not an identifier; no individual
\* declaration is an export const.
C11_TypeAliasOfOriginalName ==
  pc = "add" =>
    /\ \A i \in 1..Len(typeFile[1].members) :
         NotEnumNamed(typeFile[1].members[i]) =>
           DeclaredAsType(reExporterFile, typeFile[1].members[i].key)
    /\ \A k \in 1..Len(reExporterFile.lines) : reExporterFile.lines[k].kind = "type"

\* ------------------------------------------------------------------------
\* Properties of the URL source.
\* ------------------------------------------------------------------------
\* The document the run holds came from the URL source.
LoadedFromUrl == openAPISchema.loaded /\ Last(attempts).key = "oas-url"

\* C12: a document that the URL source gave to the pipeline came with a 2xx
\* response, received before the timer fired, whose body parsed: a non-2xx
\* response, a body that does not parse and a timeout each leave the run
\* without a document from that source.
C12_UrlFailuresGiveNoDocument ==
  LoadedFromUrl =>
    /\ IsOk(response)
    /\ timer = "cleared"
    /\ Last(attempts).ok

\* The request of the URL source is pending: the response has not come, or
\* it has and its body is still being received.
RequestPending == pc \in {"fetch", "body"}

\* C13: as long as the request is pending, whether the server has sent
\* nothing yet or has stopped before the whole document is received, the
\* timeout timer is armed, so that a server that stays silent from there on
\* has the request cancelled and the run failed when the timer fires, and not
\* before.
C13_TimerArmedWhilePending ==
  RequestPending => timer = "armed"

\* ------------------------------------------------------------------------
\* Runs of the change detector alone: a run of revision "hash" has resolved
\* a document read from --oas-path and is at line 212; the output directory
\* is as an earlier run on some document and version left it.
\* ------------------------------------------------------------------------
HashKeys == { <<"a">>, <<"B">>, <<"a", "-", "B">> }

\* The documents of at most MaxProps schemas under these keys, in every order
\* of the keys.
HashDocs ==
  {doc \in UNION {[1..n -> SchemasOver(HashKeys)] : n \in 0..MaxProps} :
     DistinctKeys(doc)}

\* The text of openapi.ts a run on doc under version writes.
ArtifactOf(doc, version) ==
  LET t == Translated("hash", doc)
  IN  TypeFileText("hash", "interface", t.members, t.lookup, hash(doc, version))

\* That run wrote schemas.ts too and ended without an error.
CompletesOn(doc, version) ==
  ~generateReExporterFile("hash", ArtifactOf(doc, version),
                          Translated("hash", doc).lookup).threw

AtDetect(before, versionBefore, doc, version) ==
  /\ rev = "hash"
  /\ pkgVersion = version
  /\ argv = <<"oas-path">>
  /\ importOrder = <<"oas-path">>
  /\ pc = "loaded"
  /\ idx = 1
  /\ timer = "none"
  /\ response = 0
  /\ attempts = <<[key |-> "oas-path", ok |-> TRUE, doc |-> doc]>>
  /\ openAPISchema = Loaded(doc)
  /\ schemaHash = NoHash
  /\ visits = <<>>
  /\ members = <<>>
  /\ enumLookup = <<>>
  /\ typeFile = <<>>
  /\ reExporterFile = NoReExporter
  /\ files = [openapi |-> FileOf(ArtifactOf(before, versionBefore)),
              schemas |-> IF CompletesOn(before, versionBefore)
                            THEN FileOf(<<>>) ELSE Missing]
  /\ written = <<>>
  /\ staged = FALSE
  /\ outcome = "running"
  /\ prev = IF CompletesOn(before, versionBefore)
              THEN [completed |-> TRUE, doc |-> Loaded(before), version |-> versionBefore]
              ELSE NoPrev

InitDetect ==
  \E before \in HashDocs, doc \in HashDocs, versionBefore \in PkgVersions,
     version \in PkgVersions :
    AtDetect(before, versionBefore, doc, version)

NextDetect == DetectChange

SpecDetect == InitDetect /\ [][NextDetect]_vars

\* d1 and d2 are the same document with map keys reordered.
SameMapping(d1, d2) ==
  /\ Len(d1) = Len(d2)
  /\ {d1[i] : i \in 1..Len(d1)} = {d2[i] : i \in 1..Len(d2)}

TransformKeys == { <<"a">>, <<"B">>, <<"a", "-", "B">> }

\* Under a key: an object, an enumeration of strings or of integers titled as
\* the key, and an object with an inline enumeration under the property B,
\* titled B or a.
TransformSchemas ==
  UNION { { ObjectSchema(k),
            EnumSchema(k, "string"),
            EnumSchema(k, "integer"),
            WithInlineEnumOf(k, <<"B">>, <<"B">>, "y"),
            WithInlineEnumOf(k, <<"B">>, <<"a">>, "y") } : k \in TransformKeys }

TransformDocs ==
  {doc \in UNION {[1..n -> TransformSchemas] : n \in 1..MaxProps} :
     DistinctKeys(doc)}

AtTransform(r, doc) ==
  /\ rev = r
  /\ pkgVersion = "1.0.0"
  /\ argv = <<"oas-path">>
  /\ importOrder = <<"oas-path">>
  /\ pc = "translating"
  /\ idx = 1
  /\ timer = "none"
  /\ response = 0
  /\ attempts = <<[key |-> "oas-path", ok |-> TRUE, doc |-> doc]>>
  /\ openAPISchema = Loaded(doc)
  /\ schemaHash = NoHash
  /\ visits = [i \in 1..Len(doc) |-> Visit(doc[i])]
  /\ members = <<>>
  /\ enumLookup = <<>>
  /\ typeFile = <<>>
  /\ reExporterFile = NoReExporter
  /\ files = [openapi |-> FileOf(<<ComponentsInterface(<<>>)>>), schemas |-> Missing]
  /\ written = <<>>
  /\ staged = FALSE
  /\ outcome = "running"
  /\ prev = NoPrev

InitTransform ==
  \E r \in {"lookup", "hash"}, doc \in TransformDocs : AtTransform(r, doc)

NextTransform == TransformCall \/ WritePrimary

SpecTransform == InitTransform /\ [][NextTransform]_vars

\* The node passes the hoist decision of the running revision.
PassesHoistDecision(r, node, path) ==
  /\ node.enum
  /\ r = "hash" => node.type = "string"
  /\ node.title # NoTitle
  /\ Last(path) = node.title

\* The token the last transform call returned, as the engine put it into
\* the member it was translating.
LastToken(mem, top) == IF top THEN Last(mem).ref ELSE Last(mem).inner

\* C15: in a call of transform during the traversal, every entry of the
\* accumulator stays as it is and where it is; a node that passes the hoist
\* decision under a name already recorded leaves the accumulator unchanged
\* and gets the name back as its token; one under a new name is appended; a
\* node that does not pass changes nothing.
C15_FirstWriteWins ==
  [][ (pc = "translating" /\ visits # <<>>) =>
        LET v == Head(visits)
            name == v.node.title
        IN  /\ Len(enumLookup') >= Len(enumLookup)
            /\ \A i \in 1..Len(enumLookup) : enumLookup'[i] = enumLookup[i]
            /\ IF ~PassesHoistDecision(rev, v.node, v.path)
                 THEN enumLookup' = enumLookup
               ELSE IF HasKey(enumLookup, name)
                 THEN /\ enumLookup' = enumLookup
                      /\ LastToken(members', v.top) = name
               ELSE /\ enumLookup' = Append(enumLookup, [name |-> name, schema |-> v.node])
                    /\ LastToken(members', v.top) = name ]_vars

\* C15 witness: the schema B, an enumeration with the values x, was recorded
\* first; the inline enumeration titled B of a later schema, with the values
\* y, got the token B, and the entry B still holds the values x.
C15_Witness ==
  /\ rev = "hash"
  /\ pc = "translating"
  /\ Len(members) = 2
  /\ members[1].ref = <<"B">>
  /\ members[2].inner = <<"B">>
  /\ openAPISchema.schemas[1].node.values = "x"
  /\ openAPISchema.schemas[2].prop.values = "y"
  /\ Len(enumLookup) = 1
  /\ enumLookup[1].name = <<"B">>
  /\ enumLookup[1].schema.values = "x"

\* ------------------------------------------------------------------------
\* Order of the flattened module.
\* ------------------------------------------------------------------------
\* C16: once the flattened module is produced, its individual declarations
\* stand in the order of the schemas in components.schemas of the generated
\* artifact: of two declarations, the one that stands first indexes the
\* schema that is listed first, whether or not enum-named entries were
\* removed between them.
C16_DeclarationsInMappingOrder ==
  pc = "add" =>
    LET schemaProperties == typeFile[1].members
        lines == reExporterFile.lines
    IN  \A i, j \in 1..Len(lines) :
          \A m, n \in 1..Len(schemaProperties) :
            ( /\ i < j
              /\ lines[i].index = schemaProperties[m].key
              /\ lines[j].index = schemaProperties[n].key ) => m < n

\* C16 witness: of three schemas the second is an enumeration and is left
\* out; the first and the third, one of them under a quoted key, are declared
\* in that order.
C16_Witness ==
  /\ pc = "add"
  /\ CleansNames(rev)
  /\ Len(typeFile[1].members) = 3
  /\ typeFile[1].members[3].quoted
  /\ reExporterFile.enumClause = <<typeFile[1].members[2].key>>
  /\ Len(reExporterFile.lines) = 2
  /\ reExporterFile.lines[1].index = typeFile[1].members[1].key
  /\ reExporterFile.lines[2].index = typeFile[1].members[3].key

\* ------------------------------------------------------------------------
\* Hoisted enums in the primary artifact.
\* ------------------------------------------------------------------------
\* text holds a standalone enum declaration whose identifier is name.
DeclaresEnum(text, name) ==
  \E i \in 1..Len(text) : text[i].stmt = "enum" /\ text[i].id = name

\* The tokens transform returned in the run, as the engine put them into the
\* members.
ReturnedTokens ==
  ({members[i].ref : i \in 1..Len(members)}
     \cup {members[i].inner : i \in 1..Len(members)}) \ {Inline}

\* C17: once the primary artifact of a revision with the transform callback
\* is written, it declares an enum under exactly the name of every token
\* transform returned, of every key of the accumulator, and of every name in
\* the consolidated re-export clause.
C17_EnumDeclaredUnderToken ==
  (UsesTransform(rev) /\ pc \in {"flatten", "add"}) =>
    /\ \A token \in ReturnedTokens : DeclaresEnum(typeFile, token)
    /\ \A i \in 1..Len(enumLookup) : DeclaresEnum(typeFile, enumLookup[i].name)
    /\ \A i \in 1..Len(reExporterFile.enumClause) :
         DeclaresEnum(typeFile, reExporterFile.enumClause[i])

\* ------------------------------------------------------------------------
\* Sources tried in one run.
\* ------------------------------------------------------------------------
\* No entry of seq stands in it twice.
NoRepeat(seq) == \A i, j \in 1..Len(seq) : i # j => seq[i] # seq[j]

\* C18: in the ordered-fallback revisions the try-order holds each source at
\* most once, whatever flags are written and however often, and in a run no
\* source is read, executed or fetched a second time.
C18_EachSourceAtMostOnce ==
  Fallback(rev) =>
    /\ NoRepeat(importOrder)
    /\ NoRepeat([i \in 1..Len(attempts) |-> attempts[i].key])

=============================================================================
